---------------------------- MODULE Spec2Model ----------------------------
(***************************************************************************)
(* Deployment configuration registry of mars-core                          *)
(* (scripts/deploy_configs.ts): the three exported Config literals         *)
(* testnet, bombay and local, the lookup of a Config by environment        *)
(* identifier, and the validation of a Config against the invariants of    *)
(* its data model.                                                         *)
(*                                                                         *)
(* A decimal string such as "0.75" is kept as written: its integer part    *)
(* and the sequence of its fractional digits ("0.70" and "0.7" are         *)
(* different strings).  DecValue reads it as an exact decimal.             *)
(***************************************************************************)
EXTENDS Integers, Sequences, FiniteSets

VARIABLES
  registry,    \* environment identifier -> Config (the module's exports)
  env,         \* identifier of the last getConfig call
  result,      \* what the last getConfig call returned
  seen,        \* identifier -> set of results getConfig has returned for it
  cfg,         \* the Config handed to validate (a derived copy)
  validation   \* what validate returned for cfg

vars == << registry, env, result, seen, cfg, validation >>

\* Number of fractional digits DecValue keeps.
DecPlaces == 2

\* The TypeScript value undefined (an unresolved placeholder).
Undefined == "undefined"

\* The decimal string with integer part ip and fractional digits fr.
D(ip, fr) == [ neg |-> FALSE, ip |-> ip, fr |-> fr ]

\* The same decimal string with a leading minus sign.
Minus(d) == [ d EXCEPT !.neg = TRUE ]

RECURSIVE Pow10(_)
Pow10(n) == IF n = 0 THEN 1 ELSE 10 * Pow10(n - 1)

RECURSIVE FracValue(_, _)
FracValue(fr, k) ==
  IF k > Len(fr) THEN 0
  ELSE fr[k] * Pow10(DecPlaces - k) + FracValue(fr, k + 1)

\* The exact value of a decimal string, in units of 10^-DecPlaces.
DecValue(d) ==
  LET m == d.ip * Pow10(DecPlaces) + FracValue(d.fr, 1)
  IN  IF d.neg THEN 0 - m ELSE m

DecLt(a, b) == DecValue(a) < DecValue(b)
DecLe(a, b) == DecValue(a) <= DecValue(b)
DecSum(a, b) == DecValue(a) + DecValue(b)

Zero == D(0, << >>)
One == D(1, << >>)

(* ---------------- export const testnet: Config ---------------- *)

testnet_councilInitMsg ==
  [ config |-> [
      address_provider_address |-> Undefined,
      proposal_voting_period |-> 20,
      proposal_effective_delay |-> 0,
      proposal_expiration_period |-> 115200,
      proposal_required_deposit |-> "100000000",
      proposal_required_quorum |-> D(0, <<1>>),
      proposal_required_threshold |-> D(0, <<5>>) ] ]

testnet_stakingInitMsg ==
  [ config |-> [
      owner |-> Undefined,
      address_provider_address |-> Undefined,
      astroport_factory_address |-> "terra18qpjm4zkvqnpjpw0zn0tdr8gdzvt8au35v45xf",
      astroport_max_spread |-> D(0, <<0, 5>>),
      cooldown_duration |-> 90,
      unstake_window |-> 300 ] ]

testnet_safetyFundInitMsg ==
  [ owner |-> Undefined,
    astroport_factory_address |-> "terra18qpjm4zkvqnpjpw0zn0tdr8gdzvt8au35v45xf",
    astroport_max_spread |-> D(0, <<0, 5>>) ]

testnet_treasuryInitMsg ==
  [ owner |-> Undefined,
    astroport_factory_address |-> "terra18qpjm4zkvqnpjpw0zn0tdr8gdzvt8au35v45xf",
    astroport_max_spread |-> D(0, <<0, 5>>) ]

testnet_protocolRewardsCollectorInitMsg ==
  [ config |-> [
      owner |-> Undefined,
      address_provider_address |-> Undefined,
      safety_fund_fee_share |-> D(0, <<1>>),
      treasury_fee_share |-> D(0, <<2>>),
      astroport_factory_address |-> "terra18qpjm4zkvqnpjpw0zn0tdr8gdzvt8au35v45xf",
      astroport_max_spread |-> D(0, <<0, 5>>) ] ]

testnet_redBankInitMsg ==
  [ config |-> [
      owner |-> Undefined,
      address_provider_address |-> Undefined,
      ma_token_code_id |-> Undefined,
      close_factor |-> D(0, <<5>>) ] ]

\* Slip: max_loan_to_value typed above liquidation_threshold.

testnet_uusd_ltv_slip ==
  [ denom |-> "uusd",
    init_params |-> [
      initial_borrow_rate |-> D(0, <<2>>),
      max_loan_to_value |-> D(0, <<9, 5>>),
      reserve_factor |-> D(0, <<2>>),
      liquidation_threshold |-> D(0, <<8, 5>>),
      liquidation_bonus |-> D(0, <<1>>),
      interest_rate_strategy |-> [
        dynamic |-> [
          min_borrow_rate |-> D(0, <<0>>),
          max_borrow_rate |-> D(1, <<0>>),
          kp_1 |-> D(0, <<0, 4>>),
          optimal_utilization_rate |-> D(0, <<9>>),
          kp_augmentation_threshold |-> D(0, <<1, 5>>),
          kp_2 |-> D(0, <<0, 7>>) ] ],
      active |-> TRUE,
      deposit_enabled |-> TRUE,
      borrow_enabled |-> TRUE ] ]

testnet_uusd ==
  [ denom |-> "uusd",
    init_params |-> [
      initial_borrow_rate |-> D(0, <<2>>),
      max_loan_to_value |-> D(0, <<7, 5>>),
      reserve_factor |-> D(0, <<2>>),
      liquidation_threshold |-> D(0, <<8, 5>>),
      liquidation_bonus |-> D(0, <<1>>),
      interest_rate_strategy |-> [
        dynamic |-> [
          min_borrow_rate |-> D(0, <<0>>),
          max_borrow_rate |-> D(1, <<0>>),
          kp_1 |-> D(0, <<0, 4>>),
          optimal_utilization_rate |-> D(0, <<9>>),
          kp_augmentation_threshold |-> D(0, <<1, 5>>),
          kp_2 |-> D(0, <<0, 7>>) ] ],
      active |-> TRUE,
      deposit_enabled |-> TRUE,
      borrow_enabled |-> TRUE ] ]

testnet_uluna ==
  [ denom |-> "uluna",
    init_params |-> [
      initial_borrow_rate |-> D(0, <<1>>),
      max_loan_to_value |-> D(0, <<5, 5>>),
      reserve_factor |-> D(0, <<2>>),
      liquidation_threshold |-> D(0, <<6, 5>>),
      liquidation_bonus |-> D(0, <<1>>),
      interest_rate_strategy |-> [
        dynamic |-> [
          min_borrow_rate |-> D(0, <<0>>),
          max_borrow_rate |-> D(2, <<0>>),
          kp_1 |-> D(0, <<0, 2>>),
          optimal_utilization_rate |-> D(0, <<7>>),
          kp_augmentation_threshold |-> D(0, <<1, 5>>),
          kp_2 |-> D(0, <<0, 5>>) ] ],
      active |-> TRUE,
      deposit_enabled |-> TRUE,
      borrow_enabled |-> TRUE ] ]

\* Slip: min_borrow_rate and max_borrow_rate exchanged.

testnet_MIR_rates_swapped ==
  [ symbol |-> "MIR",
    contract_addr |-> "terra10llyp6v3j3her8u3ce66ragytu45kcmd9asj3u",
    init_params |-> [
      initial_borrow_rate |-> D(0, <<0, 7>>),
      max_loan_to_value |-> D(0, <<4, 5>>),
      reserve_factor |-> D(0, <<2>>),
      liquidation_threshold |-> D(0, <<5, 5>>),
      liquidation_bonus |-> D(0, <<1, 5>>),
      interest_rate_strategy |-> [
        dynamic |-> [
          min_borrow_rate |-> D(2, <<0>>),
          max_borrow_rate |-> D(0, <<0>>),
          kp_1 |-> D(0, <<0, 2>>),
          optimal_utilization_rate |-> D(0, <<5>>),
          kp_augmentation_threshold |-> D(0, <<1, 5>>),
          kp_2 |-> D(0, <<0, 5>>) ] ],
      active |-> TRUE,
      deposit_enabled |-> TRUE,
      borrow_enabled |-> TRUE ] ]

testnet_MIR ==
  [ symbol |-> "MIR",
    contract_addr |-> "terra10llyp6v3j3her8u3ce66ragytu45kcmd9asj3u",
    init_params |-> [
      initial_borrow_rate |-> D(0, <<0, 7>>),
      max_loan_to_value |-> D(0, <<4, 5>>),
      reserve_factor |-> D(0, <<2>>),
      liquidation_threshold |-> D(0, <<5, 5>>),
      liquidation_bonus |-> D(0, <<1, 5>>),
      interest_rate_strategy |-> [
        dynamic |-> [
          min_borrow_rate |-> D(0, <<0>>),
          max_borrow_rate |-> D(2, <<0>>),
          kp_1 |-> D(0, <<0, 2>>),
          optimal_utilization_rate |-> D(0, <<5>>),
          kp_augmentation_threshold |-> D(0, <<1, 5>>),
          kp_2 |-> D(0, <<0, 5>>) ] ],
      active |-> TRUE,
      deposit_enabled |-> TRUE,
      borrow_enabled |-> TRUE ] ]

testnet_ANC ==
  [ symbol |-> "ANC",
    contract_addr |-> "terra1747mad58h0w4y589y3sk84r5efqdev9q4r02pc",
    init_params |-> [
      initial_borrow_rate |-> D(0, <<0, 7>>),
      max_loan_to_value |-> D(0, <<3, 5>>),
      reserve_factor |-> D(0, <<2>>),
      liquidation_threshold |-> D(0, <<4, 5>>),
      liquidation_bonus |-> D(0, <<1, 5>>),
      interest_rate_strategy |-> [
        dynamic |-> [
          min_borrow_rate |-> D(0, <<0>>),
          max_borrow_rate |-> D(2, <<0>>),
          kp_1 |-> D(0, <<0, 2>>),
          optimal_utilization_rate |-> D(0, <<5>>),
          kp_augmentation_threshold |-> D(0, <<1, 5>>),
          kp_2 |-> D(0, <<0, 5>>) ] ],
      active |-> TRUE,
      deposit_enabled |-> TRUE,
      borrow_enabled |-> TRUE ] ]

testnet_MARS ==
  [ symbol |-> "MARS",
    contract_addr |-> Undefined,
    init_params |-> [
      initial_borrow_rate |-> D(0, <<0, 7>>),
      max_loan_to_value |-> D(0, <<4, 5>>),
      reserve_factor |-> D(0, <<2>>),
      liquidation_threshold |-> D(0, <<5, 5>>),
      liquidation_bonus |-> D(0, <<1, 5>>),
      interest_rate_strategy |-> [
        dynamic |-> [
          min_borrow_rate |-> D(0, <<0>>),
          max_borrow_rate |-> D(2, <<0>>),
          kp_1 |-> D(0, <<0, 2>>),
          optimal_utilization_rate |-> D(0, <<5>>),
          kp_augmentation_threshold |-> D(0, <<1, 5>>),
          kp_2 |-> D(0, <<0, 5>>) ] ],
      active |-> TRUE,
      deposit_enabled |-> TRUE,
      borrow_enabled |-> TRUE ] ]

testnet ==
  [ councilInitMsg |-> testnet_councilInitMsg,
    stakingInitMsg |-> testnet_stakingInitMsg,
    safetyFundInitMsg |-> testnet_safetyFundInitMsg,
    treasuryInitMsg |-> testnet_treasuryInitMsg,
    protocolRewardsCollectorInitMsg |-> testnet_protocolRewardsCollectorInitMsg,
    redBankInitMsg |-> testnet_redBankInitMsg,
    initialAssets |-> << testnet_uusd, testnet_uluna, testnet_MIR, testnet_ANC, testnet_MARS >>,
    mirFarmingStratContractAddress |-> Undefined,
    ancFarmingStratContractAddress |-> Undefined,
    marsFarmingStratContractAddress |-> Undefined,
    minterProxyContractAddress |-> Undefined,
    marsTokenContractAddress |-> Undefined,
    oracleFactoryAddress |-> "terra18qpjm4zkvqnpjpw0zn0tdr8gdzvt8au35v45xf" ]

(* ---------------- export const bombay: Config ---------------- *)

bombay_councilInitMsg ==
  [ config |-> [
      address_provider_address |-> Undefined,
      proposal_voting_period |-> 20,
      proposal_effective_delay |-> 0,
      proposal_expiration_period |-> 115200,
      proposal_required_deposit |-> "100000000",
      proposal_required_quorum |-> D(0, <<1>>),
      proposal_required_threshold |-> D(0, <<5>>) ] ]

\* Slip: the production values of the comments (864000 s cooldown, 172800 s window).

bombay_stakingInitMsg_production ==
  [ config |-> [
      owner |-> Undefined,
      address_provider_address |-> Undefined,
      astroport_factory_address |-> "terra18qpjm4zkvqnpjpw0zn0tdr8gdzvt8au35v45xf",
      astroport_max_spread |-> D(0, <<0, 5>>),
      cooldown_duration |-> 864000,
      unstake_window |-> 172800 ] ]

bombay_stakingInitMsg ==
  [ config |-> [
      owner |-> Undefined,
      address_provider_address |-> Undefined,
      astroport_factory_address |-> "terra18qpjm4zkvqnpjpw0zn0tdr8gdzvt8au35v45xf",
      astroport_max_spread |-> D(0, <<0, 5>>),
      cooldown_duration |-> 90,
      unstake_window |-> 300 ] ]

bombay_safetyFundInitMsg ==
  [ owner |-> Undefined,
    astroport_factory_address |-> "terra18qpjm4zkvqnpjpw0zn0tdr8gdzvt8au35v45xf",
    astroport_max_spread |-> D(0, <<0, 5>>) ]

bombay_treasuryInitMsg ==
  [ owner |-> Undefined,
    astroport_factory_address |-> "terra18qpjm4zkvqnpjpw0zn0tdr8gdzvt8au35v45xf",
    astroport_max_spread |-> D(0, <<0, 5>>) ]

bombay_protocolRewardsCollectorInitMsg ==
  [ config |-> [
      owner |-> Undefined,
      address_provider_address |-> Undefined,
      safety_fund_fee_share |-> D(0, <<1>>),
      treasury_fee_share |-> D(0, <<2>>),
      astroport_factory_address |-> "terra18qpjm4zkvqnpjpw0zn0tdr8gdzvt8au35v45xf",
      astroport_max_spread |-> D(0, <<0, 5>>) ] ]

bombay_redBankInitMsg ==
  [ config |-> [
      owner |-> Undefined,
      address_provider_address |-> Undefined,
      ma_token_code_id |-> Undefined,
      close_factor |-> D(0, <<5>>) ] ]

bombay_uusd ==
  [ denom |-> "uusd",
    init_params |-> [
      initial_borrow_rate |-> D(0, <<2>>),
      max_loan_to_value |-> D(0, <<7, 5>>),
      reserve_factor |-> D(0, <<2>>),
      liquidation_threshold |-> D(0, <<8, 5>>),
      liquidation_bonus |-> D(0, <<1>>),
      interest_rate_strategy |-> [
        dynamic |-> [
          min_borrow_rate |-> D(0, <<0>>),
          max_borrow_rate |-> D(1, <<0>>),
          kp_1 |-> D(0, <<0, 4>>),
          optimal_utilization_rate |-> D(0, <<9>>),
          kp_augmentation_threshold |-> D(0, <<1, 5>>),
          kp_2 |-> D(0, <<0, 7>>) ] ],
      active |-> TRUE,
      deposit_enabled |-> TRUE,
      borrow_enabled |-> TRUE ] ]

\* Slip: max_loan_to_value and liquidation_threshold exchanged.

bombay_uluna_ltv_swapped ==
  [ denom |-> "uluna",
    init_params |-> [
      initial_borrow_rate |-> D(0, <<1>>),
      max_loan_to_value |-> D(0, <<6, 5>>),
      reserve_factor |-> D(0, <<2>>),
      liquidation_threshold |-> D(0, <<5, 5>>),
      liquidation_bonus |-> D(0, <<1>>),
      interest_rate_strategy |-> [
        dynamic |-> [
          min_borrow_rate |-> D(0, <<0>>),
          max_borrow_rate |-> D(2, <<0>>),
          kp_1 |-> D(0, <<0, 2>>),
          optimal_utilization_rate |-> D(0, <<7>>),
          kp_augmentation_threshold |-> D(0, <<1, 5>>),
          kp_2 |-> D(0, <<0, 5>>) ] ],
      active |-> TRUE,
      deposit_enabled |-> TRUE,
      borrow_enabled |-> TRUE ] ]

bombay_uluna ==
  [ denom |-> "uluna",
    init_params |-> [
      initial_borrow_rate |-> D(0, <<1>>),
      max_loan_to_value |-> D(0, <<5, 5>>),
      reserve_factor |-> D(0, <<2>>),
      liquidation_threshold |-> D(0, <<6, 5>>),
      liquidation_bonus |-> D(0, <<1>>),
      interest_rate_strategy |-> [
        dynamic |-> [
          min_borrow_rate |-> D(0, <<0>>),
          max_borrow_rate |-> D(2, <<0>>),
          kp_1 |-> D(0, <<0, 2>>),
          optimal_utilization_rate |-> D(0, <<7>>),
          kp_augmentation_threshold |-> D(0, <<1, 5>>),
          kp_2 |-> D(0, <<0, 5>>) ] ],
      active |-> TRUE,
      deposit_enabled |-> TRUE,
      borrow_enabled |-> TRUE ] ]

bombay_MIR ==
  [ symbol |-> "MIR",
    contract_addr |-> "terra10llyp6v3j3her8u3ce66ragytu45kcmd9asj3u",
    init_params |-> [
      initial_borrow_rate |-> D(0, <<0, 7>>),
      max_loan_to_value |-> D(0, <<4, 5>>),
      reserve_factor |-> D(0, <<2>>),
      liquidation_threshold |-> D(0, <<5, 5>>),
      liquidation_bonus |-> D(0, <<1, 5>>),
      interest_rate_strategy |-> [
        dynamic |-> [
          min_borrow_rate |-> D(0, <<0>>),
          max_borrow_rate |-> D(2, <<0>>),
          kp_1 |-> D(0, <<0, 2>>),
          optimal_utilization_rate |-> D(0, <<5>>),
          kp_augmentation_threshold |-> D(0, <<1, 5>>),
          kp_2 |-> D(0, <<0, 5>>) ] ],
      active |-> TRUE,
      deposit_enabled |-> TRUE,
      borrow_enabled |-> TRUE ] ]

\* Slip: reserve_factor "0.2" typed as "2.0".

bombay_MARS_reserve_slip ==
  [ symbol |-> "MARS",
    contract_addr |-> "terra1qs7h830ud0a4hj72yr8f7jmlppyx7z524f7gw6",
    init_params |-> [
      initial_borrow_rate |-> D(0, <<0, 7>>),
      max_loan_to_value |-> D(0, <<4, 5>>),
      reserve_factor |-> D(2, <<0>>),
      liquidation_threshold |-> D(0, <<5, 5>>),
      liquidation_bonus |-> D(0, <<1, 5>>),
      interest_rate_strategy |-> [
        dynamic |-> [
          min_borrow_rate |-> D(0, <<0>>),
          max_borrow_rate |-> D(2, <<0>>),
          kp_1 |-> D(0, <<0, 2>>),
          optimal_utilization_rate |-> D(0, <<5>>),
          kp_augmentation_threshold |-> D(0, <<1, 5>>),
          kp_2 |-> D(0, <<0, 5>>) ] ],
      active |-> TRUE,
      deposit_enabled |-> TRUE,
      borrow_enabled |-> TRUE ] ]

bombay_MARS ==
  [ symbol |-> "MARS",
    contract_addr |-> "terra1qs7h830ud0a4hj72yr8f7jmlppyx7z524f7gw6",
    init_params |-> [
      initial_borrow_rate |-> D(0, <<0, 7>>),
      max_loan_to_value |-> D(0, <<4, 5>>),
      reserve_factor |-> D(0, <<2>>),
      liquidation_threshold |-> D(0, <<5, 5>>),
      liquidation_bonus |-> D(0, <<1, 5>>),
      interest_rate_strategy |-> [
        dynamic |-> [
          min_borrow_rate |-> D(0, <<0>>),
          max_borrow_rate |-> D(2, <<0>>),
          kp_1 |-> D(0, <<0, 2>>),
          optimal_utilization_rate |-> D(0, <<5>>),
          kp_augmentation_threshold |-> D(0, <<1, 5>>),
          kp_2 |-> D(0, <<0, 5>>) ] ],
      active |-> TRUE,
      deposit_enabled |-> TRUE,
      borrow_enabled |-> TRUE ] ]

bombay ==
  [ councilInitMsg |-> bombay_councilInitMsg,
    stakingInitMsg |-> bombay_stakingInitMsg,
    safetyFundInitMsg |-> bombay_safetyFundInitMsg,
    treasuryInitMsg |-> bombay_treasuryInitMsg,
    protocolRewardsCollectorInitMsg |-> bombay_protocolRewardsCollectorInitMsg,
    redBankInitMsg |-> bombay_redBankInitMsg,
    initialAssets |-> << bombay_uusd, bombay_uluna, bombay_MIR, bombay_MARS >>,
    mirFarmingStratContractAddress |-> Undefined,
    ancFarmingStratContractAddress |-> Undefined,
    marsFarmingStratContractAddress |-> Undefined,
    minterProxyContractAddress |-> "terra1hfyg0tvuqd5kk4un4luqng2adc88lgt5skxmve",
    marsTokenContractAddress |-> "terra1qs7h830ud0a4hj72yr8f7jmlppyx7z524f7gw6",
    oracleFactoryAddress |-> "terra18qpjm4zkvqnpjpw0zn0tdr8gdzvt8au35v45xf" ]

(* ---------------- export const local: Config ---------------- *)

\* Slip: proposal_effective_delay and proposal_expiration_period exchanged.

local_councilInitMsg_swapped ==
  [ config |-> [
      address_provider_address |-> Undefined,
      proposal_voting_period |-> 1000,
      proposal_effective_delay |-> 3000,
      proposal_expiration_period |-> 150,
      proposal_required_deposit |-> "100000000",
      proposal_required_quorum |-> D(0, <<1>>),
      proposal_required_threshold |-> D(0, <<5>>) ] ]

local_councilInitMsg ==
  [ config |-> [
      address_provider_address |-> Undefined,
      proposal_voting_period |-> 1000,
      proposal_effective_delay |-> 150,
      proposal_expiration_period |-> 3000,
      proposal_required_deposit |-> "100000000",
      proposal_required_quorum |-> D(0, <<1>>),
      proposal_required_threshold |-> D(0, <<5>>) ] ]

local_stakingInitMsg ==
  [ config |-> [
      owner |-> Undefined,
      address_provider_address |-> Undefined,
      astroport_factory_address |-> Undefined,
      astroport_max_spread |-> D(0, <<0, 5>>),
      cooldown_duration |-> 10,
      unstake_window |-> 300 ] ]

local_safetyFundInitMsg ==
  [ owner |-> Undefined,
    astroport_factory_address |-> Undefined,
    astroport_max_spread |-> D(0, <<0, 5>>) ]

local_treasuryInitMsg ==
  [ owner |-> Undefined,
    astroport_factory_address |-> "terra18qpjm4zkvqnpjpw0zn0tdr8gdzvt8au35v45xf",
    astroport_max_spread |-> D(0, <<0, 5>>) ]

\* Slip: treasury_fee_share "0.2" typed as "0.92".

local_protocolRewardsCollectorInitMsg_slip ==
  [ config |-> [
      owner |-> Undefined,
      address_provider_address |-> Undefined,
      safety_fund_fee_share |-> D(0, <<1>>),
      treasury_fee_share |-> D(0, <<9, 2>>),
      astroport_factory_address |-> Undefined,
      astroport_max_spread |-> D(0, <<0, 5>>) ] ]

local_protocolRewardsCollectorInitMsg ==
  [ config |-> [
      owner |-> Undefined,
      address_provider_address |-> Undefined,
      safety_fund_fee_share |-> D(0, <<1>>),
      treasury_fee_share |-> D(0, <<2>>),
      astroport_factory_address |-> Undefined,
      astroport_max_spread |-> D(0, <<0, 5>>) ] ]

local_redBankInitMsg ==
  [ config |-> [
      owner |-> Undefined,
      address_provider_address |-> Undefined,
      ma_token_code_id |-> Undefined,
      close_factor |-> D(0, <<5>>) ] ]

local ==
  [ councilInitMsg |-> local_councilInitMsg,
    stakingInitMsg |-> local_stakingInitMsg,
    safetyFundInitMsg |-> local_safetyFundInitMsg,
    treasuryInitMsg |-> local_treasuryInitMsg,
    protocolRewardsCollectorInitMsg |-> local_protocolRewardsCollectorInitMsg,
    redBankInitMsg |-> local_redBankInitMsg,
    initialAssets |-> << >>,
    mirFarmingStratContractAddress |-> Undefined,
    ancFarmingStratContractAddress |-> Undefined,
    marsFarmingStratContractAddress |-> Undefined,
    minterProxyContractAddress |-> Undefined,
    marsTokenContractAddress |-> Undefined,
    oracleFactoryAddress |-> Undefined ]
(* ---------------- the registry and its lookup ---------------- *)

\* An environment dropped from the exports.
Registry_without_local == [ testnet |-> testnet, bombay |-> bombay ]

\* The exported configurations, by name.
Registry == [ testnet |-> testnet, bombay |-> bombay, local |-> local ]

\* Identifiers a caller may pass.
EnvironmentId == { "testnet", "bombay", "local", "nonexistent", "mainnet" }

Found(c) == [ ok |-> TRUE, config |-> c ]
UnknownEnvironment == [ ok |-> FALSE, error |-> "UnknownEnvironment" ]
NotCalled == [ ok |-> FALSE, error |-> "NotCalled" ]

getConfig(reg, e) ==
  IF e \in DOMAIN reg THEN Found(reg[e]) ELSE UnknownEnvironment

(* ---------------- the schema validator ---------------- *)

Violation(path, what) == [ fieldPath |-> path, violation |-> what ]

Check(cond, path, what) ==
  IF cond THEN << >> ELSE << Violation(path, what) >>

InUnit(d) == DecLe(Zero, d) /\ DecLe(d, One)

validateCouncil(m) ==
  LET c == m.config
      p == << "councilInitMsg", "config" >>
  IN  Check(c.proposal_voting_period >= 0,
            Append(p, "proposal_voting_period"), "negative")
      \o Check(c.proposal_effective_delay >= 0,
               Append(p, "proposal_effective_delay"), "negative")
      \o Check(c.proposal_expiration_period >= 0,
               Append(p, "proposal_expiration_period"), "negative")
      \o Check(c.proposal_effective_delay < c.proposal_expiration_period,
               Append(p, "proposal_effective_delay"),
               "not below proposal_expiration_period")
      \o Check(InUnit(c.proposal_required_quorum),
               Append(p, "proposal_required_quorum"), "not in [0,1]")
      \o Check(InUnit(c.proposal_required_threshold),
               Append(p, "proposal_required_threshold"), "not in [0,1]")

validateStaking(m) ==
  LET c == m.config
      p == << "stakingInitMsg", "config" >>
  IN  Check(InUnit(c.astroport_max_spread),
            Append(p, "astroport_max_spread"), "not in [0,1]")
      \o Check(c.cooldown_duration >= 0,
               Append(p, "cooldown_duration"), "negative")
      \o Check(c.unstake_window >= 0,
               Append(p, "unstake_window"), "negative")

validateFeeShare(name, m) ==
  Check(InUnit(m.astroport_max_spread),
        << name, "astroport_max_spread" >>, "not in [0,1]")

validateRewardsCollector(m) ==
  LET c == m.config
      p == << "protocolRewardsCollectorInitMsg", "config" >>
  IN  Check(InUnit(c.astroport_max_spread),
            Append(p, "astroport_max_spread"), "not in [0,1]")
      \o Check(InUnit(c.safety_fund_fee_share),
               Append(p, "safety_fund_fee_share"), "not in [0,1]")
      \o Check(InUnit(c.treasury_fee_share),
               Append(p, "treasury_fee_share"), "not in [0,1]")
      \o Check(DecSum(c.safety_fund_fee_share, c.treasury_fee_share)
                 <= DecValue(One),
               Append(p, "treasury_fee_share"), "fee shares sum above 1")

validateRedBank(m) ==
  LET c == m.config
  IN  Check(DecLt(Zero, c.close_factor) /\ DecLe(c.close_factor, One),
            << "redBankInitMsg", "config", "close_factor" >>, "not in (0,1]")

\* An asset is named by its denom or, for a token contract, by its symbol.
AssetKey(a) == IF "denom" \in DOMAIN a THEN a.denom ELSE a.symbol

validateStrategy(key, s) ==
  LET d == s.dynamic
      p == << "initialAssets", key, "init_params",
              "interest_rate_strategy", "dynamic" >>
  IN  Check(DecLe(d.min_borrow_rate, d.max_borrow_rate),
            Append(p, "min_borrow_rate"), "above max_borrow_rate")
      \o Check(DecLt(Zero, d.optimal_utilization_rate)
                 /\ DecLt(d.optimal_utilization_rate, One),
               Append(p, "optimal_utilization_rate"), "not in (0,1)")
      \o Check(DecLe(Zero, d.kp_1), Append(p, "kp_1"), "negative")
      \o Check(DecLe(Zero, d.kp_2), Append(p, "kp_2"), "negative")
      \o Check(DecLe(Zero, d.kp_augmentation_threshold),
               Append(p, "kp_augmentation_threshold"), "negative")

validateAsset(a) ==
  LET r == a.init_params
      p == << "initialAssets", AssetKey(a), "init_params" >>
  IN  Check(DecLe(Zero, r.initial_borrow_rate),
            Append(p, "initial_borrow_rate"), "negative")
      \o Check(DecLt(Zero, r.max_loan_to_value)
                 /\ DecLt(r.max_loan_to_value, One),
               Append(p, "max_loan_to_value"), "not in (0,1)")
      \o Check(DecLe(Zero, r.reserve_factor) /\ DecLt(r.reserve_factor, One),
               Append(p, "reserve_factor"), "not in [0,1)")
      \o Check(DecLt(Zero, r.liquidation_threshold)
                 /\ DecLt(r.liquidation_threshold, One),
               Append(p, "liquidation_threshold"), "not in (0,1)")
      \o Check(DecLt(r.max_loan_to_value, r.liquidation_threshold),
               Append(p, "liquidation_threshold"),
               "not above max_loan_to_value")
      \o Check(DecLe(Zero, r.liquidation_bonus),
               Append(p, "liquidation_bonus"), "negative")
      \o validateStrategy(AssetKey(a), r.interest_rate_strategy)

RECURSIVE validateAssets(_, _)
validateAssets(assets, i) ==
  IF i > Len(assets) THEN << >>
  ELSE validateAsset(assets[i]) \o validateAssets(assets, i + 1)

\* Every violation of the Config, in field order; success when there is none.
validate(c) ==
  LET v == validateCouncil(c.councilInitMsg)
           \o validateStaking(c.stakingInitMsg)
           \o validateFeeShare("safetyFundInitMsg", c.safetyFundInitMsg)
           \o validateFeeShare("treasuryInitMsg", c.treasuryInitMsg)
           \o validateRewardsCollector(c.protocolRewardsCollectorInitMsg)
           \o validateRedBank(c.redBankInitMsg)
           \o validateAssets(c.initialAssets, 1)
  IN  [ done |-> TRUE, ok |-> v = << >>, violations |-> v ]

NotValidated == [ done |-> FALSE ]
NoConfig == [ unset |-> TRUE ]

(* ---------------- derived copies of a Config ---------------- *)

RiskFields ==
  { "initial_borrow_rate", "max_loan_to_value", "reserve_factor",
    "liquidation_threshold", "liquidation_bonus" }

StrategyFields ==
  { "min_borrow_rate", "max_borrow_rate", "kp_1",
    "optimal_utilization_rate", "kp_augmentation_threshold", "kp_2" }

\* Decimal strings an editor may put into a field.
EditValues ==
  { D(0, <<7, 0>>), D(0, <<7>>), D(0, <<0>>), D(1, <<0>>),
    D(0, <<9, 5>>), Minus(D(0, <<1>>)) }

WithRisk(c, i, f, v) ==
  [ c EXCEPT !.initialAssets[i].init_params[f] = v ]

WithStrategy(c, i, f, v) ==
  [ c EXCEPT !.initialAssets[i].init_params.interest_rate_strategy.dynamic[f] = v ]

(* ---------------- the state machine ---------------- *)

Init ==
  /\ registry = Registry
  /\ env = "none"
  /\ result = NotCalled
  /\ seen = [ e \in EnvironmentId |-> {} ]
  /\ cfg = NoConfig
  /\ validation = NotValidated

\* getConfig(e): a pure lookup in the registry.
GetConfig(e) ==
  /\ env' = e
  /\ result' = getConfig(registry, e)
  /\ seen' = [ seen EXCEPT ![e] = @ \cup { getConfig(registry, e) } ]
  /\ cfg' = NoConfig
  /\ validation' = NotValidated
  /\ UNCHANGED registry

\* The consumer takes the Config it was given as it is (one copy per lookup).
TakeConfig ==
  /\ result.ok
  /\ cfg = NoConfig
  /\ cfg' = result.config
  /\ validation' = NotValidated
  /\ UNCHANGED << registry, env, result, seen >>

\* The consumer takes a copy with one risk parameter of one asset changed.
EditRisk(i, f, v) ==
  /\ result.ok
  /\ cfg = NoConfig
  /\ i \in 1..Len(result.config.initialAssets)
  /\ cfg' = WithRisk(result.config, i, f, v)
  /\ validation' = NotValidated
  /\ UNCHANGED << registry, env, result, seen >>

\* The consumer takes a copy with one strategy parameter of one asset changed.
EditStrategy(i, f, v) ==
  /\ result.ok
  /\ cfg = NoConfig
  /\ i \in 1..Len(result.config.initialAssets)
  /\ cfg' = WithStrategy(result.config, i, f, v)
  /\ validation' = NotValidated
  /\ UNCHANGED << registry, env, result, seen >>

\* validate(cfg)
Validate ==
  /\ cfg # NoConfig
  /\ validation = NotValidated
  /\ validation' = validate(cfg)
  /\ UNCHANGED << registry, env, result, seen, cfg >>

\* Positions that exist in some initialAssets list of the registry.
AssetIndexes ==
  UNION { 1..Len(Registry[e].initialAssets) : e \in DOMAIN Registry }

Next ==
  \/ \E e \in EnvironmentId : GetConfig(e)
  \/ TakeConfig
  \/ \E i \in AssetIndexes, f \in RiskFields, v \in EditValues :
       EditRisk(i, f, v)
  \/ \E i \in AssetIndexes, f \in StrategyFields, v \in EditValues :
       EditStrategy(i, f, v)
  \/ Validate

Spec == Init /\ [][Next]_vars

(* ---------------- properties ---------------- *)

\* C1: in every registered environment, every asset entry has
\* max_loan_to_value < liquidation_threshold < 1, as exact decimals.
C1_LtvBelowThresholdBelowOne ==
  \A e \in DOMAIN registry :
    \A i \in 1..Len(registry[e].initialAssets) :
      LET r == registry[e].initialAssets[i].init_params
      IN  /\ DecLt(r.max_loan_to_value, r.liquidation_threshold)
          /\ DecLt(r.liquidation_threshold, One)

\* C1 witness: getConfig has returned bombay's Config, whose uluna entry has
\* a loan-to-value ceiling of 0.55 under a liquidation threshold of 0.65.
C1_Witness ==
  /\ result.ok /\ env = "bombay"
  /\ result.config = registry["bombay"]
  /\ \E i \in 1..Len(result.config.initialAssets) :
       LET a == result.config.initialAssets[i]
       IN  /\ AssetKey(a) = "uluna"
           /\ DecValue(a.init_params.max_loan_to_value) = DecValue(D(0, <<5, 5>>))
           /\ DecValue(a.init_params.liquidation_threshold) = DecValue(D(0, <<6, 5>>))

\* C2: in every environment's protocolRewardsCollectorInitMsg both fee shares
\* are in [0,1] and their sum is at most 1.
C2_FeeSharesWithinOne ==
  \A e \in DOMAIN registry :
    LET c == registry[e].protocolRewardsCollectorInitMsg.config
    IN  /\ InUnit(c.safety_fund_fee_share)
        /\ InUnit(c.treasury_fee_share)
        /\ DecSum(c.safety_fund_fee_share, c.treasury_fee_share) <= DecValue(One)

\* C2 witness: getConfig has returned local's Config, whose fee shares are
\* 0.1 and 0.2 (sum 0.3, positive and below 1).
C2_Witness ==
  /\ result.ok /\ env = "local"
  /\ LET c == result.config.protocolRewardsCollectorInitMsg.config
     IN  /\ DecSum(c.safety_fund_fee_share, c.treasury_fee_share)
              = DecValue(D(0, <<3>>))
         /\ DecLt(Zero, c.safety_fund_fee_share)
         /\ DecLt(Zero, c.treasury_fee_share)

\* C3: every interest_rate_strategy has min_borrow_rate <= max_borrow_rate
\* and 0 < optimal_utilization_rate < 1.
C3_StrategyRatesOrdered ==
  \A e \in DOMAIN registry :
    \A i \in 1..Len(registry[e].initialAssets) :
      LET d == registry[e].initialAssets[i].init_params.interest_rate_strategy.dynamic
      IN  /\ DecLe(d.min_borrow_rate, d.max_borrow_rate)
          /\ DecLt(Zero, d.optimal_utilization_rate)
          /\ DecLt(d.optimal_utilization_rate, One)

\* C3 witness: getConfig has returned testnet's Config, whose MIR entry has a
\* strategy with min_borrow_rate 0.0 strictly below max_borrow_rate 2.0.
C3_Witness ==
  /\ result.ok /\ env = "testnet"
  /\ \E i \in 1..Len(result.config.initialAssets) :
       LET a == result.config.initialAssets[i]
           d == a.init_params.interest_rate_strategy.dynamic
       IN  /\ AssetKey(a) = "MIR"
           /\ DecValue(d.min_borrow_rate) = 0
           /\ DecValue(d.max_borrow_rate) = DecValue(D(2, << >>))

\* C4: every asset entry's init_params has 0 <= reserve_factor < 1 and
\* liquidation_bonus >= 0.
C4_ReserveFactorAndBonus ==
  \A e \in DOMAIN registry :
    \A i \in 1..Len(registry[e].initialAssets) :
      LET r == registry[e].initialAssets[i].init_params
      IN  /\ DecLe(Zero, r.reserve_factor)
          /\ DecLt(r.reserve_factor, One)
          /\ DecLe(Zero, r.liquidation_bonus)

\* C4 witness: getConfig has returned bombay's Config, whose MARS entry has
\* reserve_factor 0.2 and liquidation_bonus 0.15.
C4_Witness ==
  /\ result.ok /\ env = "bombay"
  /\ \E i \in 1..Len(result.config.initialAssets) :
       LET a == result.config.initialAssets[i]
       IN  /\ AssetKey(a) = "MARS"
           /\ DecValue(a.init_params.reserve_factor) = DecValue(D(0, <<2>>))
           /\ DecValue(a.init_params.liquidation_bonus) = DecValue(D(0, <<1, 5>>))

\* C5: in every environment's councilInitMsg, proposal_effective_delay is
\* below proposal_expiration_period and the required quorum and threshold
\* are in [0,1].
C5_CouncilDelayBelowExpiration ==
  \A e \in DOMAIN registry :
    LET c == registry[e].councilInitMsg.config
    IN  /\ c.proposal_effective_delay < c.proposal_expiration_period
        /\ InUnit(c.proposal_required_quorum)
        /\ InUnit(c.proposal_required_threshold)

\* C5 witness: getConfig has returned local's Config, the one environment
\* with a positive effective delay (150 blocks, expiration 3000).
C5_Witness ==
  /\ result.ok /\ env = "local"
  /\ result.config.councilInitMsg.config.proposal_effective_delay = 150
  /\ result.config.councilInitMsg.config.proposal_expiration_period = 3000

\* The liquidation_threshold field of testnet's uusd entry.
UusdThresholdPath ==
  << "initialAssets", "uusd", "init_params", "liquidation_threshold" >>

\* testnet's Config with only the uusd entry's liquidation_threshold
\* changed to "0.70".
TestnetThresholdLowered ==
  WithRisk(registry["testnet"], 1, "liquidation_threshold", D(0, <<7, 0>>))

\* C6: testnet's uusd entry has max_loan_to_value 0.75, liquidation_threshold
\* 0.85 and liquidation_bonus 0.1; validate succeeds on testnet's Config; and
\* on the same Config with only that liquidation_threshold changed to 0.70
\* validate fails with a violation whose field path is that field.
C6_UusdExampleValidates ==
  /\ LET a == registry["testnet"].initialAssets[1]
     IN  /\ AssetKey(a) = "uusd"
         /\ DecValue(a.init_params.max_loan_to_value) = DecValue(D(0, <<7, 5>>))
         /\ DecValue(a.init_params.liquidation_threshold) = DecValue(D(0, <<8, 5>>))
         /\ DecValue(a.init_params.liquidation_bonus) = DecValue(D(0, <<1>>))
  /\ (validation.done /\ cfg = registry["testnet"]) =>
        (validation.ok /\ validation.violations = << >>)
  /\ (validation.done /\ cfg = TestnetThresholdLowered) =>
        /\ ~validation.ok
        /\ \E k \in 1..Len(validation.violations) :
             validation.violations[k].fieldPath = UusdThresholdPath

\* C6 witness: validate has run on the Config with the lowered threshold
\* and reported the violation.
C6_Witness ==
  /\ validation.done
  /\ cfg = TestnetThresholdLowered
  /\ ~validation.ok
  /\ \E k \in 1..Len(validation.violations) :
       validation.violations[k].fieldPath = UusdThresholdPath

\* The identifiers the source registers.
RegisteredEnvs == { "testnet", "bombay", "local" }

\* C7: getConfig(e) returns the Config of e exactly when e is testnet, bombay
\* or local and fails with UnknownEnvironment for any other identifier; no
\* call changes the registry, and all calls with one identifier return
\* equal results.
C7_GetConfigLookup ==
  /\ registry = Registry
  /\ \A e \in EnvironmentId :
       /\ Cardinality(seen[e]) <= 1
       /\ \A r \in seen[e] :
            /\ r.ok <=> e \in RegisteredEnvs
            /\ r.ok => r.config = registry[e]
            /\ ~r.ok => r.error = "UnknownEnvironment"
  /\ env # "none" => result \in seen[env]

\* C7 witness: getConfig has been called for a registered and for an unknown
\* identifier, the last call failing with UnknownEnvironment.
C7_Witness ==
  /\ env = "nonexistent"
  /\ result = UnknownEnvironment
  /\ \E r \in seen["local"] : r.ok /\ r.config = local
  /\ \E r \in seen["testnet"] : r.ok /\ r.config = testnet

\* C8 (as claimed): every strategy has kp_1, kp_2 and
\* kp_augmentation_threshold >= 0 and optimal_utilization_rate +
\* kp_augmentation_threshold < 1, so that kp_2 is active at some utilization
\* in [0,1].
C8_Claimed_TwoSegmentCurve ==
  \A e \in DOMAIN registry :
    \A i \in 1..Len(registry[e].initialAssets) :
      LET d == registry[e].initialAssets[i].init_params.interest_rate_strategy.dynamic
      IN  /\ DecLe(Zero, d.kp_1)
          /\ DecLe(Zero, d.kp_2)
          /\ DecLe(Zero, d.kp_augmentation_threshold)
          /\ DecSum(d.optimal_utilization_rate, d.kp_augmentation_threshold)
               < DecValue(One)

\* C9 (as claimed): within each environment the astroport_factory_address of
\* stakingInitMsg, safetyFundInitMsg, treasuryInitMsg and
\* protocolRewardsCollectorInitMsg are all undefined or all the same address.
C9_Claimed_FactoryAddressesAgree ==
  \A e \in DOMAIN registry :
    LET c == registry[e]
        s == c.stakingInitMsg.config.astroport_factory_address
    IN  /\ c.safetyFundInitMsg.astroport_factory_address = s
        /\ c.treasuryInitMsg.astroport_factory_address = s
        /\ c.protocolRewardsCollectorInitMsg.config.astroport_factory_address = s

\* C10: in every environment's stakingInitMsg, cooldown_duration and
\* unstake_window are non-negative and cooldown_duration <= unstake_window.
C10_CooldownWithinWindow ==
  \A e \in DOMAIN registry :
    LET c == registry[e].stakingInitMsg.config
    IN  /\ c.cooldown_duration >= 0
        /\ c.unstake_window >= 0
        /\ c.cooldown_duration <= c.unstake_window

\* C10 witness: getConfig has returned bombay's Config, with a cooldown of
\* 90 s inside an unstake window of 300 s.
C10_Witness ==
  /\ result.ok /\ env = "bombay"
  /\ result.config.stakingInitMsg.config.cooldown_duration = 90
  /\ result.config.stakingInitMsg.config.unstake_window = 300

=============================================================================
